---- MODULE Spec2Model ----
(***************************************************************************)
(* Jurassic Quiz API (src/main.py, src/schemas.py): token sessions with    *)
(* expiry, registration and login, idempotent question seeding, positional *)
(* scoring and the leaderboard, over a document store.                     *)
(*                                                                         *)
(* Collections are sequences of documents in insertion order; find_one and *)
(* delete_one act on the first matching document.  Time is counted in      *)
(* days.  A password digest is the tagged text it was computed from (the   *)
(* digest function is taken to be collision free), and a generated token   *)
(* is the tagged number of the draw (draws never repeat).                  *)
(***************************************************************************)
EXTENDS Integers, Sequences, FiniteSets, TLC

VARIABLES users, sessions, questions, results, now, drawn, issued, revoked,
          creds, last, pc, req

vars == <<users, sessions, questions, results, now, drawn, issued, revoked,
          creds, last, pc, req>>

----------------------------------------------------------------------------
\* Bounds of the model.

\* Tokens drawn from the generator in one run.
MaxTokens == 2

\* Last day of the clock, and the days that pass between two requests.
MaxTime == 14

ClockStep == 7

\* Concurrent requests in flight (RaceSpec).
MaxProcs == 2

Procs == 1..MaxProcs

Emails == {"ann@x.io", "bob@x.io"}

Names == {"Ann"}

Passwords == {"rex", "raptor"}

\* Results stored in one run.
MaxResults == 2
\* The longest the clock moves between the two readings of one request.
MaxLag == 1

\* The difficulty a request carries: absent, empty, a level, or another word.
DifficultyInputs == {<<>>, <<"">>, <<"easy">>, <<"medium">>, <<"hard">>, <<"extreme">>}

\* The answer lists a client submits.
AnswerInputs ==
    {<<>>, <<0, 3, 1>>, <<1, 1, 0>>, <<0, 3, 1, 1, 1, 0, 2, 2, 1>>,
     <<0, 3, 1, 1, 1, 0, 2, 2, 1, 0>>, <<2, 2, 1, 0, 3, 1, 1, 1, 0>>}

QuizEmails == {"ann@x.io"}

Limits == {0, 1, 3, 10}
\* limit is an unchecked int of the query string: the leaderboard hands it to
\* the cursor as it comes.
BoardLimits == {0 - 2, 0, 1, 3, 10}

----------------------------------------------------------------------------
\* Values.

\* Python's None.
None == [none |-> TRUE]

\* An absent or empty token: falsy in `if not token`.
NoToken == <<>>

\* A token a client made up: the generator never returns it.
ForgedToken == <<"forged">>

\* An Optional[...] argument: Absent is None, Some(x) is the value x.
Absent == <<>>

Some(x) == <<x>>

\* timedelta(days=7)
SESSION_DAYS == 7

SECRET_SALT == "jurassic-salt"

Min(S) == CHOOSE x \in S : \A y \in S : x <= y

----------------------------------------------------------------------------
\* The document store.

Matches(coll, field, value) == {i \in 1..Len(coll) : coll[i][field] = value}

find_one(coll, field, value) ==
    IF Matches(coll, field, value) = {} THEN None
    ELSE coll[Min(Matches(coll, field, value))]

RemoveAt(coll, i) == SubSeq(coll, 1, i - 1) \o SubSeq(coll, i + 1, Len(coll))

delete_one(coll, field, value) ==
    IF Matches(coll, field, value) = {} THEN coll
    ELSE RemoveAt(coll, Min(Matches(coll, field, value)))

count_documents(coll, field, value) == Cardinality(Matches(coll, field, value))

insert_one(coll, doc) == Append(coll, doc)

\* The storage layer stamps each document it creates.
create_document(coll, doc) == Append(coll, doc @@ [created_at |-> now])

\* A document passes a filter when it has every value the filter names.
Passes(doc, filter) == \A k \in DOMAIN filter : doc[k] = filter[k]

Take(coll, n) == SubSeq(coll, 1, IF n < Len(coll) THEN n ELSE Len(coll))

\* limit = Absent: every matching document, in the store's order.
get_documents(coll, filter, limit) ==
    LET found == SelectSeq(coll, LAMBDA d : Passes(d, filter)) IN
    IF limit = <<>> THEN found ELSE Take(found, limit[1])

----------------------------------------------------------------------------
\* Credentials.

sha256(text) == <<"sha256", text>>

\* A digest that leaves the password out.
hash_salt_only(password) == sha256(SECRET_SALT)

hash_password(password) == sha256(SECRET_SALT \o password)

compare_digest(a, b) == a = b

verify_password(password, password_hash) ==
    compare_digest(hash_password(password), password_hash)

AppUser(name, email, password_hash) ==
    [name |-> name, email |-> email, password_hash |-> password_hash,
     avatar |-> None, is_active |-> TRUE]

----------------------------------------------------------------------------
\* Sessions.

token_urlsafe == <<"tok", drawn + 1>>

\* created_at and expires_at come from two calls of datetime.now: later is
\* the second reading.
SessionDoc(token, email, later) ==
    [token |-> token, email |-> email, created_at |-> now,
     expires_at |-> later + SESSION_DAYS]

TokenResponse(token, name, email) ==
    [token |-> token, name |-> name, email |-> email]

Issue(token, email, later) ==
    Append(issued, [token |-> token, email |-> email, issued_at |-> later,
                    expires_at |-> later + SESSION_DAYS])

Reply(op, arg, status, out) ==
    [op |-> op, arg |-> arg, at |-> now, status |-> status, out |-> out]

\* Tokens a client can present: none, a made-up one, or one it was given.
ClientTokens == {NoToken, ForgedToken} \cup {issued[i].token : i \in 1..Len(issued)}

\* Requests past their first storage step (RaceSpec).
InFlight == Cardinality({p \in Procs : pc[p] # "idle"})

\* The generator has a draw left for this request and for each one in flight.
TokensLeft == drawn + InFlight < MaxTokens

QuizUnchanged == UNCHANGED <<questions, results>>

ProcsUnchanged == UNCHANGED <<pc, req>>

----------------------------------------------------------------------------
\* Auth handlers, one request at a time.

\* get_current_user with a sliding expiry: a live session is renewed for
\* another SESSION_DAYS each time it resolves.
get_current_user_sliding(token) ==
    /\ LET s == find_one(sessions, "token", token) IN
         IF token = NoToken THEN
            /\ last' = Reply("get_current_user", token, "no_token", None)
            /\ sessions' = sessions
         ELSE IF s = None THEN
            /\ last' = Reply("get_current_user", token, "no_session", None)
            /\ sessions' = sessions
         ELSE IF s.expires_at < now THEN
            /\ last' = Reply("get_current_user", token, "expired", None)
            /\ sessions' = delete_one(sessions, "token", token)
         ELSE
            /\ last' = Reply("get_current_user", token, "live",
                             find_one(users, "email", s.email))
            /\ sessions' = [sessions EXCEPT
                              ![Min(Matches(sessions, "token", token))] =
                                 [s EXCEPT !.expires_at = now + SESSION_DAYS]]
    /\ UNCHANGED <<users, now, drawn, issued, revoked, creds>>
    /\ QuizUnchanged /\ ProcsUnchanged

\* get_current_user that reports a stale session but leaves its record.
get_current_user_keeps_stale(token) ==
    /\ LET s == find_one(sessions, "token", token) IN
         IF token = NoToken THEN
            last' = Reply("get_current_user", token, "no_token", None)
         ELSE IF s = None THEN
            last' = Reply("get_current_user", token, "no_session", None)
         ELSE IF s.expires_at < now THEN
            last' = Reply("get_current_user", token, "expired", None)
         ELSE
            last' = Reply("get_current_user", token, "live",
                          find_one(users, "email", s.email))
    /\ UNCHANGED <<users, sessions, now, drawn, issued, revoked, creds>>
    /\ QuizUnchanged /\ ProcsUnchanged

\* get_current_user that already expires a session at expires_at itself.
get_current_user_early_expiry(token) ==
    /\ LET s == find_one(sessions, "token", token) IN
         IF token = NoToken THEN
            /\ last' = Reply("get_current_user", token, "no_token", None)
            /\ sessions' = sessions
         ELSE IF s = None THEN
            /\ last' = Reply("get_current_user", token, "no_session", None)
            /\ sessions' = sessions
         ELSE IF s.expires_at <= now THEN
            /\ last' = Reply("get_current_user", token, "expired", None)
            /\ sessions' = delete_one(sessions, "token", token)
         ELSE
            /\ last' = Reply("get_current_user", token, "live",
                             find_one(users, "email", s.email))
            /\ sessions' = sessions
    /\ UNCHANGED <<users, now, drawn, issued, revoked, creds>>
    /\ QuizUnchanged /\ ProcsUnchanged

get_current_user(token) ==
    /\ LET s == find_one(sessions, "token", token) IN
         IF token = NoToken THEN
            /\ last' = Reply("get_current_user", token, "no_token", None)
            /\ sessions' = sessions
         ELSE IF s = None THEN
            /\ last' = Reply("get_current_user", token, "no_session", None)
            /\ sessions' = sessions
         ELSE IF s.expires_at < now THEN
            /\ last' = Reply("get_current_user", token, "expired", None)
            /\ sessions' = delete_one(sessions, "token", token)
         ELSE
            /\ last' = Reply("get_current_user", token, "live",
                             find_one(users, "email", s.email))
            /\ sessions' = sessions
    /\ UNCHANGED <<users, now, drawn, issued, revoked, creds>>
    /\ QuizUnchanged /\ ProcsUnchanged

\* The storage step of get_current_user that fails, if any: the session
\* lookup, the deletion of an expired session, the user lookup.
Faults == {"none", "find_session", "delete_session", "find_user"}

\* get_current_user without its try/except: a failed step ends the request.
get_current_user_uncaught(token, fault) ==
    /\ LET s == find_one(sessions, "token", token) IN
         IF token = NoToken THEN
            /\ last' = Reply("get_current_user", token, "no_token", None)
            /\ sessions' = sessions
         ELSE IF fault = "find_session" THEN
            /\ last' = Reply("get_current_user", token, "raised",
                             [detail |-> "Internal Server Error"])
            /\ sessions' = sessions
         ELSE IF s = None THEN
            /\ last' = Reply("get_current_user", token, "no_session", None)
            /\ sessions' = sessions
         ELSE IF s.expires_at < now THEN
            IF fault = "delete_session" THEN
               /\ last' = Reply("get_current_user", token, "raised",
                                [detail |-> "Internal Server Error"])
               /\ sessions' = sessions
            ELSE
               /\ last' = Reply("get_current_user", token, "expired", None)
               /\ sessions' = delete_one(sessions, "token", token)
         ELSE IF fault = "find_user" THEN
            /\ last' = Reply("get_current_user", token, "raised",
                             [detail |-> "Internal Server Error"])
            /\ sessions' = sessions
         ELSE
            /\ last' = Reply("get_current_user", token, "live",
                             find_one(users, "email", s.email))
            /\ sessions' = sessions
    /\ UNCHANGED <<users, now, drawn, issued, revoked, creds>>
    /\ QuizUnchanged /\ ProcsUnchanged

\* get_current_user with a storage step that may raise: the except clause
\* turns the exception into None.  A failed delete_one leaves the record.
get_current_user_try(token, fault) ==
    /\ LET s == find_one(sessions, "token", token) IN
         IF token = NoToken THEN
            /\ last' = Reply("get_current_user", token, "no_token", None)
            /\ sessions' = sessions
         ELSE IF fault = "find_session" THEN
            /\ last' = Reply("get_current_user", token, "fault", None)
            /\ sessions' = sessions
         ELSE IF s = None THEN
            /\ last' = Reply("get_current_user", token, "no_session", None)
            /\ sessions' = sessions
         ELSE IF s.expires_at < now THEN
            IF fault = "delete_session" THEN
               /\ last' = Reply("get_current_user", token, "fault", None)
               /\ sessions' = sessions
            ELSE
               /\ last' = Reply("get_current_user", token, "expired", None)
               /\ sessions' = delete_one(sessions, "token", token)
         ELSE IF fault = "find_user" THEN
            /\ last' = Reply("get_current_user", token, "fault", None)
            /\ sessions' = sessions
         ELSE
            /\ last' = Reply("get_current_user", token, "live",
                             find_one(users, "email", s.email))
            /\ sessions' = sessions
    /\ UNCHANGED <<users, now, drawn, issued, revoked, creds>>
    /\ QuizUnchanged /\ ProcsUnchanged

\* register, the clock standing at later when expires_at is computed.
register_at(name, email, password, later) ==
    /\ IF find_one(users, "email", email) # None THEN
          /\ last' = Reply("register", email, 400,
                           [detail |-> "Email already registered"])
          /\ UNCHANGED <<users, sessions, drawn, issued, creds, now>>
       ELSE
          /\ TokensLeft
          /\ users' = create_document(users,
                         AppUser(name, email, hash_password(password)))
          /\ creds' = Append(creds, [email |-> email, password |-> password])
          /\ sessions' = insert_one(sessions,
                                    SessionDoc(token_urlsafe, email, later))
          /\ drawn' = drawn + 1
          /\ issued' = Issue(token_urlsafe, email, later)
          /\ now' = later
          /\ last' = [Reply("register", email, 200,
                            TokenResponse(token_urlsafe, name, email))
                         EXCEPT !.at = later]
    /\ UNCHANGED revoked
    /\ QuizUnchanged /\ ProcsUnchanged

\* register without the existence check.
register_unchecked(name, email, password) ==
    /\ TokensLeft
    /\ users' = create_document(users,
                   AppUser(name, email, hash_password(password)))
    /\ creds' = Append(creds, [email |-> email, password |-> password])
    /\ sessions' = insert_one(sessions, SessionDoc(token_urlsafe, email, now))
    /\ drawn' = drawn + 1
    /\ issued' = Issue(token_urlsafe, email, now)
    /\ last' = Reply("register", email, 200,
                     TokenResponse(token_urlsafe, name, email))
    /\ UNCHANGED <<now, revoked>>
    /\ QuizUnchanged /\ ProcsUnchanged

\* register served within one reading of the clock.
register(name, email, password) == register_at(name, email, password, now)

\* login, the clock standing at later when expires_at is computed.
login_at(email, password, later) ==
    /\ LET user == find_one(users, "email", email) IN
         IF user = None \/ ~verify_password(password, user.password_hash) THEN
            /\ last' = Reply("login", email, 401,
                             [detail |-> "Invalid email or password"])
            /\ UNCHANGED <<sessions, drawn, issued, now>>
         ELSE
            /\ TokensLeft
            /\ sessions' = insert_one(sessions,
                                      SessionDoc(token_urlsafe, email, later))
            /\ drawn' = drawn + 1
            /\ issued' = Issue(token_urlsafe, email, later)
            /\ now' = later
            /\ last' = [Reply("login", email, 200,
                              TokenResponse(token_urlsafe, user.name, user.email))
                           EXCEPT !.at = later]
    /\ UNCHANGED <<users, revoked, creds>>
    /\ QuizUnchanged /\ ProcsUnchanged

\* login that stamps the moment of the login on the user's record.
login_stamps_user(email, password) ==
    /\ LET user == find_one(users, "email", email) IN
         IF user = None \/ ~verify_password(password, user.password_hash) THEN
            /\ last' = Reply("login", email, 401,
                             [detail |-> "Invalid email or password"])
            /\ UNCHANGED <<users, sessions, drawn, issued>>
         ELSE
            /\ TokensLeft
            /\ users' = [users EXCEPT ![Min(Matches(users, "email", email))] =
                                       [last_login |-> now] @@ user]
            /\ sessions' = insert_one(sessions, SessionDoc(token_urlsafe, email, now))
            /\ drawn' = drawn + 1
            /\ issued' = Issue(token_urlsafe, email, now)
            /\ last' = Reply("login", email, 200,
                             TokenResponse(token_urlsafe, user.name, user.email))
    /\ UNCHANGED <<now, revoked, creds>>
    /\ QuizUnchanged /\ ProcsUnchanged

\* login that replaces the user's earlier session instead of adding one.
login_single_session(email, password) ==
    /\ LET user == find_one(users, "email", email) IN
         IF user = None \/ ~verify_password(password, user.password_hash) THEN
            /\ last' = Reply("login", email, 401,
                             [detail |-> "Invalid email or password"])
            /\ UNCHANGED <<sessions, drawn, issued>>
         ELSE
            /\ TokensLeft
            /\ sessions' = insert_one(delete_one(sessions, "email", email),
                                      SessionDoc(token_urlsafe, email, now))
            /\ drawn' = drawn + 1
            /\ issued' = Issue(token_urlsafe, email, now)
            /\ last' = Reply("login", email, 200,
                             TokenResponse(token_urlsafe, user.name, user.email))
    /\ UNCHANGED <<users, now, revoked, creds>>
    /\ QuizUnchanged /\ ProcsUnchanged

\* login served within one reading of the clock.
login(email, password) == login_at(email, password, now)

\* logout that answers without deleting the session.
logout_keeps_session(token) ==
    /\ sessions' = sessions
    /\ revoked' = IF token # NoToken THEN revoked \cup {token} ELSE revoked
    /\ last' = Reply("logout", token, 200, [success |-> TRUE])
    /\ UNCHANGED <<users, now, drawn, issued, creds>>
    /\ QuizUnchanged /\ ProcsUnchanged

\* logout that ends every session of the token's user.
logout_all_of_user(token) ==
    /\ sessions' =
          IF token # NoToken /\ find_one(sessions, "token", token) # None
          THEN SelectSeq(sessions, LAMBDA d :
                   d.email # find_one(sessions, "token", token).email)
          ELSE sessions
    /\ revoked' = IF token # NoToken THEN revoked \cup {token} ELSE revoked
    /\ last' = Reply("logout", token, 200, [success |-> TRUE])
    /\ UNCHANGED <<users, now, drawn, issued, creds>>
    /\ QuizUnchanged /\ ProcsUnchanged

logout(token) ==
    /\ sessions' = IF token # NoToken THEN delete_one(sessions, "token", token)
                   ELSE sessions
    /\ revoked' = IF token # NoToken THEN revoked \cup {token} ELSE revoked
    /\ last' = Reply("logout", token, 200, [success |-> TRUE])
    /\ UNCHANGED <<users, now, drawn, issued, creds>>
    /\ QuizUnchanged /\ ProcsUnchanged

\* Time passes between requests.
Tick ==
    /\ now + ClockStep <= MaxTime
    /\ now' = now + ClockStep
    /\ UNCHANGED <<users, sessions, drawn, issued, revoked, creds, last>>
    /\ QuizUnchanged /\ ProcsUnchanged

----------------------------------------------------------------------------
\* register, one storage step at a time: requests in flight interleave.

\* existing = find_one({"email": ...}); raise 400 if existing
register_find(p, name, email, password) ==
    /\ pc[p] = "idle"
    /\ IF find_one(users, "email", email) # None THEN
          /\ last' = Reply("register", email, 400,
                           [detail |-> "Email already registered"])
          /\ UNCHANGED <<pc, req>>
       ELSE
          /\ TokensLeft
          /\ pc' = [pc EXCEPT ![p] = "create_user"]
          /\ req' = [req EXCEPT ![p] =
                        [name |-> name, email |-> email, password |-> password]]
          /\ last' = last
    /\ UNCHANGED <<users, sessions, now, drawn, issued, revoked, creds>>
    /\ QuizUnchanged

\* create_document("appuser", user)
register_create_user(p) ==
    /\ pc[p] = "create_user"
    /\ users' = create_document(users,
                   AppUser(req[p].name, req[p].email, hash_password(req[p].password)))
    /\ creds' = Append(creds, [email |-> req[p].email, password |-> req[p].password])
    /\ pc' = [pc EXCEPT ![p] = "insert_session"]
    /\ UNCHANGED <<sessions, now, drawn, issued, revoked, last, req>>
    /\ QuizUnchanged

\* token = secrets.token_urlsafe(32); insert the session; return the token
register_insert_session(p) ==
    /\ pc[p] = "insert_session"
    /\ sessions' = insert_one(sessions, SessionDoc(token_urlsafe, req[p].email, now))
    /\ drawn' = drawn + 1
    /\ issued' = Issue(token_urlsafe, req[p].email, now)
    /\ last' = Reply("register", req[p].email, 200,
                     TokenResponse(token_urlsafe, req[p].name, req[p].email))
    /\ pc' = [pc EXCEPT ![p] = "idle"]
    /\ req' = [req EXCEPT ![p] = None]
    /\ UNCHANGED <<users, now, revoked, creds>>
    /\ QuizUnchanged


----------------------------------------------------------------------------
\* The question catalog.

QuizQuestion(question, options, answer_index, difficulty) ==
    [question |-> question, options |-> options, answer_index |-> answer_index,
     difficulty |-> difficulty, theme |-> "jurassic"]

JURASSIC_QUESTIONS == <<
    QuizQuestion("Ano ang panahon kung kailan namuhay ang mga dinosaur?",
        <<"Jurassic", "Cenozoic", "Precambrian", "Holocene">>, 0, "easy"),
    QuizQuestion("Alin sa mga ito ang isang carnivorous dinosaur?",
        <<"Triceratops", "Brachiosaurus", "Stegosaurus", "Tyrannosaurus Rex">>,
        3, "easy"),
    QuizQuestion("Ano ang tawag sa taong nag-aaral ng fossils?",
        <<"Archaeologist", "Paleontologist", "Geologist", "Biologist">>,
        1, "easy"),
    QuizQuestion("Anong uri ng dinosaur si Velociraptor?",
        <<"Herbivore", "Carnivore", "Omnivore", "Insectivore">>, 1, "medium"),
    QuizQuestion("Saan natagpuan ang unang fossil ng Archaeopteryx?",
        <<"China", "Germany", "USA", "Argentina">>, 1, "medium"),
    QuizQuestion("Anong katangian ang tumutulong sa mga sauropods na kumain ng matataas na halaman?",
        <<"Mahahabang leeg", "Matutulis na ngipin", "Malalaking pakpak",
          "Matitibay na sungay">>, 0, "medium"),
    QuizQuestion("Alin ang mas nauna: Triassic, Jurassic, o Cretaceous?",
        <<"Jurassic", "Cretaceous", "Triassic", "Pare-pareho">>, 2, "hard"),
    QuizQuestion("Ano ang pangunahing teorya sa pagkalipol ng mga dinosaur?",
        <<"Pagbaha", "Pagputok ng bulkan", "Pagbangga ng asteroid",
          "Matinding lamig">>, 2, "hard"),
    QuizQuestion("Anong fossil resin ang madalas nakabihag ng mga insekto mula pa noong sinaunang panahon?",
        <<"Tar", "Amber", "Coal", "Quartz">>, 1, "hard") >>

Difficulties == {"easy", "medium", "hard"}

RECURSIVE CreateAll(_, _)
\* for q in docs: create_document(coll, q)
CreateAll(coll, docs) ==
    IF docs = <<>> THEN coll
    ELSE CreateAll(create_document(coll, Head(docs)), Tail(docs))

\* Seeding without the count: the set is inserted on every call.
seed_questions_always == CreateAll(questions, JURASSIC_QUESTIONS)

\* The question collection after seed_questions_if_needed().
seed_questions_if_needed ==
    IF count_documents(questions, "theme", "jurassic") = 0
    THEN CreateAll(questions, JURASSIC_QUESTIONS)
    ELSE questions

\* seed_questions_if_needed, one storage step at a time: callers interleave.
\* count = db["quizquestion"].count_documents({"theme": "jurassic"})
seed_count(p) ==
    /\ pc[p] = "idle"
    /\ IF count_documents(questions, "theme", "jurassic") = 0
       THEN /\ pc' = [pc EXCEPT ![p] = "seed_insert"]
            /\ req' = [req EXCEPT ![p] = [next |-> 1]]
       ELSE /\ pc' = [pc EXCEPT ![p] = "seeded"]
            /\ req' = req
    /\ UNCHANGED <<questions, results, now, last>>
    /\ UNCHANGED <<users, sessions, drawn, issued, revoked, creds>>

\* A loop that stops one question short of the end of the list.
seed_insert_short(p) ==
    /\ pc[p] = "seed_insert"
    /\ questions' = create_document(questions, JURASSIC_QUESTIONS[req[p].next])
    /\ IF req[p].next >= Len(JURASSIC_QUESTIONS) - 1
       THEN /\ pc' = [pc EXCEPT ![p] = "seeded"]
            /\ req' = [req EXCEPT ![p] = None]
       ELSE /\ pc' = pc
            /\ req' = [req EXCEPT ![p] = [next |-> req[p].next + 1]]
    /\ UNCHANGED <<results, now, last>>
    /\ UNCHANGED <<users, sessions, drawn, issued, revoked, creds>>

\* for q in JURASSIC_QUESTIONS: create_document("quizquestion", q)
seed_insert(p) ==
    /\ pc[p] = "seed_insert"
    /\ questions' = create_document(questions, JURASSIC_QUESTIONS[req[p].next])
    /\ IF req[p].next = Len(JURASSIC_QUESTIONS)
       THEN /\ pc' = [pc EXCEPT ![p] = "seeded"]
            /\ req' = [req EXCEPT ![p] = None]
       ELSE /\ pc' = pc
            /\ req' = [req EXCEPT ![p] = [next |-> req[p].next + 1]]
    /\ UNCHANGED <<results, now, last>>
    /\ UNCHANGED <<users, sessions, drawn, issued, revoked, creds>>

\* A filter on the theme alone, whatever the difficulty asked for.
filter_dict_theme_only(difficulty) == [theme |-> "jurassic"]

\* filter_dict of get_questions and submit_quiz
filter_dict(difficulty) ==
    IF difficulty # Absent /\ difficulty[1] \in Difficulties
    THEN [theme |-> "jurassic", difficulty |-> difficulty[1]]
    ELSE [theme |-> "jurassic"]

\* The response shape of one stored question.
Sanitize(d) ==
    [question |-> d.question, options |-> d.options,
     answer_index |-> d.answer_index, difficulty |-> d.difficulty,
     theme |-> d.theme]

\* for d in docs: out.append(QuizQuestion(...))
SanitizeAll(docs) == [i \in 1..Len(docs) |-> Sanitize(docs[i])]

----------------------------------------------------------------------------
\* Scoring.

RECURSIVE ScoreFrom(_, _, _, _)
\* for i in range(total): if answers[i] == questions[i]["answer_index"]: score += 1
ScoreFrom(i, total, fetched, answers) ==
    IF i > total THEN 0
    ELSE (IF answers[i] = fetched[i].answer_index THEN 1 ELSE 0)
         + ScoreFrom(i + 1, total, fetched, answers)

Total(fetched, answers) ==
    IF Len(fetched) < Len(answers) THEN Len(fetched) ELSE Len(answers)

Score(fetched, answers) == ScoreFrom(1, Total(fetched, answers), fetched, answers)

\* payload.difficulty if payload.difficulty else questions[0]["difficulty"]
ResultDifficulty(difficulty, fetched) ==
    IF difficulty # Absent /\ difficulty[1] # "" THEN difficulty[1]
    ELSE fetched[1].difficulty

QuizResult(user_email, score, total, difficulty) ==
    [user_email |-> user_email, score |-> score, total |-> total,
     difficulty |-> difficulty, theme |-> "jurassic"]

\* The field constraints of the QuizResult schema.
QuizResultValid(r) ==
    /\ r.score >= 0
    /\ r.total >= 1
    /\ r.difficulty \in Difficulties

----------------------------------------------------------------------------
\* Quiz handlers, one request at a time.

AuthUnchanged == UNCHANGED <<users, sessions, drawn, issued, revoked, creds>>

get_questions(difficulty, limit) ==
    /\ questions' = seed_questions_if_needed
    /\ last' = Reply("get_questions", <<difficulty, limit>>, 200,
                     SanitizeAll(get_documents(questions',
                                       filter_dict(difficulty), Some(limit))))
    /\ UNCHANGED <<results, now>>
    /\ AuthUnchanged /\ ProcsUnchanged

submit_quiz(user_email, answers, difficulty) ==
    /\ questions' = seed_questions_if_needed
    /\ \E fetched \in {get_documents(questions', filter_dict(difficulty), Absent)} :
       LET total == Total(fetched, answers)
           score == Score(fetched, answers)
           result == QuizResult(user_email, score, total,
                                ResultDifficulty(difficulty, fetched))
       IN IF fetched = <<>> THEN
             /\ last' = Reply("submit_quiz", <<answers, difficulty>>, 400,
                              [detail |-> "No questions available"])
             /\ results' = results
          ELSE IF ~QuizResultValid(result) THEN
             /\ last' = Reply("submit_quiz", <<answers, difficulty>>, 500,
                              [detail |-> "Internal Server Error"])
             /\ results' = results
          ELSE
             /\ Len(results) < MaxResults
             /\ results' = create_document(results, result)
             /\ last' = Reply("submit_quiz", <<answers, difficulty>>, 200,
                              [score |-> score, total |-> total])
    /\ UNCHANGED now
    /\ AuthUnchanged /\ ProcsUnchanged

\* The leaderboard's projection of one stored result.
Entry(r) ==
    [user_email |-> r.user_email, score |-> r.score, total |-> r.total,
     difficulty |-> r.difficulty, created_at |-> r.created_at]

\* for r in results: data.append({...})
Entries(docs) == [i \in 1..Len(docs) |-> Entry(docs[i])]

\* Orders of the documents of coll, highest score first: the store fixes no
\* order among equal scores.
Orders(n) == {f \in [1..n -> 1..n] : \A i, j \in 1..n : i # j => f[i] # f[j]}

SortedByScoreAsc(coll) ==
    {[i \in 1..Len(coll) |-> coll[f[i]]] : f \in
        {g \in Orders(Len(coll)) :
            \A i \in 1..(Len(coll) - 1) : coll[g[i]].score <= coll[g[i + 1]].score}}

SortedByScoreDesc(coll) ==
    {[i \in 1..Len(coll) |-> coll[f[i]]] : f \in
        {g \in Orders(Len(coll)) :
            \A i \in 1..(Len(coll) - 1) : coll[g[i]].score >= coll[g[i + 1]].score}}

\* cursor.limit(n): 0 is no limit, a negative n is read as -n.
CursorLimit(coll, n) ==
    IF n = 0 THEN coll ELSE Take(coll, IF n < 0 THEN 0 - n ELSE n)

\* leaderboard that also sweeps the expired sessions on its way.
leaderboard_sweeps_sessions(limit) ==
    /\ questions' = seed_questions_if_needed
    /\ \E sorted \in SortedByScoreDesc(
                        SelectSeq(results, LAMBDA r : Passes(r, [theme |-> "jurassic"]))) :
          last' = Reply("leaderboard", limit, 200,
                        Entries(CursorLimit(sorted, limit)))
    /\ sessions' = SelectSeq(sessions, LAMBDA s : ~(s.expires_at < now))
    /\ UNCHANGED <<results, now, users, drawn, issued, revoked, creds>>
    /\ ProcsUnchanged

leaderboard(limit) ==
    /\ questions' = seed_questions_if_needed
    /\ \E sorted \in SortedByScoreDesc(
                        SelectSeq(results, LAMBDA r : Passes(r, [theme |-> "jurassic"]))) :
          last' = Reply("leaderboard", limit, 200,
                        Entries(CursorLimit(sorted, limit)))
    /\ UNCHANGED <<results, now>>
    /\ AuthUnchanged /\ ProcsUnchanged

----------------------------------------------------------------------------

Init ==
    /\ users = <<>>
    /\ sessions = <<>>
    /\ questions = <<>>
    /\ results = <<>>
    /\ now = 0
    /\ drawn = 0
    /\ issued = <<>>
    /\ revoked = {}
    /\ creds = <<>>
    /\ last = Reply("none", None, 0, None)
    /\ pc = [p \in Procs |-> "idle"]
    /\ req = [p \in Procs |-> None]

\* Requests served one at a time.
AuthStep(emails, passwords) ==
    \/ \E n \in Names, e \in emails, w \in passwords : register(n, e, w)
    \/ \E e \in emails, w \in passwords : login(e, w)
    \/ \E t \in ClientTokens : logout(t)
    \/ \E t \in ClientTokens : get_current_user(t)
    \/ Tick

QuizStep(emails, answers, difficulties, limits, tops) ==
    \/ \E d \in difficulties, n \in limits : get_questions(d, n)
    \/ \E e \in emails, a \in answers, d \in difficulties :
          submit_quiz(e, a, d)
    \/ \E n \in tops : leaderboard(n)

\* The auth service alone.
AuthNext == AuthStep(Emails, Passwords)

AuthSpec == Init /\ [][AuthNext]_vars

\* The quiz service alone.
QuizNext ==
    QuizStep(QuizEmails, AnswerInputs, DifficultyInputs, Limits, BoardLimits)

QuizSpec == Init /\ [][QuizNext]_vars

\* The auth service with Register requests interleaved at their storage
\* steps.
RaceNext ==
    \/ \E p \in Procs, n \in Names, e \in Emails, w \in Passwords :
          register_find(p, n, e, w)
    \/ \E p \in Procs : register_create_user(p)
    \/ \E p \in Procs : register_insert_session(p)
    \/ \E e \in Emails, w \in Passwords : login(e, w)
    \/ \E t \in ClientTokens : logout(t)
    \/ \E t \in ClientTokens : get_current_user(t)
    \/ Tick

RaceSpec == Init /\ [][RaceNext]_vars

\* Callers of seed_questions_if_needed on an empty collection, each once.
SeedRaceNext ==
    \/ \E p \in Procs : seed_count(p)
    \/ \E p \in Procs : seed_insert(p)

SeedRaceSpec == Init /\ [][SeedRaceNext]_vars

\* The clock readings a request that started at now can still get.
Readings == {t \in now..(now + MaxLag) : t <= MaxTime}

\* The auth service, the clock moving while a session is being created.
ClockNext ==
    \/ \E n \in Names, w \in Passwords, t \in Readings :
          register_at(n, "ann@x.io", w, t)
    \/ \E w \in Passwords, t \in Readings : login_at("ann@x.io", w, t)
    \/ \E t \in ClientTokens : logout(t)
    \/ \E t \in ClientTokens : get_current_user(t)
    \/ Tick

ClockSpec == Init /\ [][ClockNext]_vars

\* The auth service with a store that may fail under get_current_user.
FaultNext ==
    \/ \E n \in Names, w \in Passwords : register(n, "ann@x.io", w)
    \/ \E w \in Passwords : login("ann@x.io", w)
    \/ \E t \in ClientTokens : logout(t)
    \/ \E t \in ClientTokens, f \in Faults : get_current_user_try(t, f)
    \/ Tick

FaultSpec == Init /\ [][FaultNext]_vars

\* Both services, on one user and a few quiz requests.
AuthPart == AuthStep({"ann@x.io"}, Passwords)

QuizPart ==
    QuizStep({"ann@x.io"}, {<<>>, <<0, 3, 1>>}, {<<"hard">>}, {1}, {1})

Next ==
    \/ AuthPart
    \/ QuizPart

Spec == Init /\ [][Next]_vars

----------------------------------------------------------------------------
\* Properties.

Tokens(coll) == {coll[i].token : i \in 1..Len(coll)}

HasUser(email) == \E i \in 1..Len(users) : users[i].email = email

IssuedTokens == Tokens(issued)

\* C1: in every reachable state, also with Register requests interleaved at
\* their storage steps, the user collection holds at most one user per email.
C1_OneUserPerEmail ==
    \A i, j \in 1..Len(users) : users[i].email = users[j].email => i = j

\* C2: with requests one at a time, a Register for an email that already has
\* a user fails with 400 and leaves the user and session collections as they
\* were.
C2_RegisterConflict ==
    [][\A n \in Names, e \in Emails, w \in Passwords :
          (register(n, e, w) /\ HasUser(e)) =>
             /\ last'.op = "register"
             /\ last'.status = 400
             /\ users' = users
             /\ sessions' = sessions]_vars

C2_Witness ==
    /\ last.op = "register"
    /\ last.status = 400
    /\ HasUser(last.arg)
    /\ sessions # <<>>

\* C3: a resolve of a token that a completed Logout was given returns none,
\* whatever register, login, logout and resolve requests came in between.
C3_RevokedNeverResolves ==
    (last.op = "get_current_user" /\ last.arg \in revoked) => last.out = None

\* A token that was issued, logged out while its time had not run out, and
\* then presented again.
C3_Witness ==
    /\ last.op = "get_current_user"
    /\ last.arg \in revoked
    /\ \E i \in 1..Len(issued) :
          issued[i].token = last.arg /\ last.at <= issued[i].expires_at
    /\ sessions # <<>>

\* C4: a resolve of a token whose session record has expires_at before the
\* current time returns none, and afterwards no session record has that token.
C4_ExpiredIsSwept ==
    [][\A t \in ClientTokens :
          (get_current_user(t)
             /\ \E i \in 1..Len(sessions) :
                   sessions[i].token = t /\ sessions[i].expires_at < now) =>
             /\ last'.out = None
             /\ t \notin Tokens(sessions')]_vars

C4_Witness ==
    /\ last.op = "get_current_user"
    /\ last.status = "expired"
    /\ last.arg \in IssuedTokens
    /\ last.arg \notin revoked
    /\ last.arg \notin Tokens(sessions)

\* C5: a token returned by a successful Register or Login for an email
\* resolves to the user with that email at every time up to its expires_at,
\* as long as Logout was not called with it; what happened to other tokens
\* does not matter.
C5_LiveTokenResolves ==
    last.op = "get_current_user" =>
       \A i \in 1..Len(issued) :
          (issued[i].token = last.arg
             /\ last.arg \notin revoked
             /\ last.at <= issued[i].expires_at) =>
             /\ last.out # None
             /\ last.out.email = issued[i].email

\* A token resolved on its last day, after another token was logged out.
C5_Witness ==
    /\ last.op = "get_current_user"
    /\ last.out # None
    /\ revoked \cap IssuedTokens # {}
    /\ \E i \in 1..Len(issued) :
          issued[i].token = last.arg /\ last.at = issued[i].expires_at

\* C6: Logout returns success for any token; a second Logout with the same
\* token would change nothing; it removes the session with exactly that
\* token and leaves every other session and every user as they were.
C6_LogoutIdempotent ==
    [][\A t \in ClientTokens :
          logout(t) =>
             /\ last'.status = 200
             /\ last'.out = [success |-> TRUE]
             /\ users' = users
             /\ sessions' = SelectSeq(sessions, LAMBDA d : d.token # t)
             /\ (IF t # NoToken THEN delete_one(sessions', "token", t)
                 ELSE sessions') = sessions']_vars

\* A Logout of a live token that left another session in place.
C6_Witness ==
    /\ last.op = "logout"
    /\ last.arg \in IssuedTokens
    /\ last.arg \notin Tokens(sessions)
    /\ sessions # <<>>

\* A user registered with this email and this password.
Registered(email, password) ==
    \E i \in 1..Len(creds) : creds[i] = [email |-> email, password |-> password]

\* C7: Login succeeds if and only if a user with the email exists and the
\* password is the one given at registration (verify accepts exactly the
\* hashed password); unknown email and wrong password fail with the same 401
\* and create no session.
C7_LoginIffCredentials ==
    /\ [](\A w, v \in Passwords :
            verify_password(v, hash_password(w)) <=> (v = w))
    /\ [][\A e \in Emails, w \in Passwords :
            login(e, w) =>
               IF Registered(e, w)
               THEN /\ last'.status = 200
                    /\ last'.out.email = e
                    /\ Len(sessions') = Len(sessions) + 1
               ELSE /\ last'.status = 401
                    /\ last'.out = [detail |-> "Invalid email or password"]
                    /\ sessions' = sessions]_vars

\* A Login refused for a wrong password: the user exists and holds a session.
C7_Witness ==
    /\ last.op = "login"
    /\ last.status = 401
    /\ HasUser(last.arg)
    /\ sessions # <<>>

\* C8: a successful Login appends exactly one session, with a token that no
\* existing session has, and leaves every existing session as it was.
C8_LoginAddsOneSession ==
    [][\A e \in Emails, w \in Passwords :
          (login(e, w) /\ last'.status = 200) =>
             /\ Len(sessions') = Len(sessions) + 1
             /\ SubSeq(sessions', 1, Len(sessions)) = sessions
             /\ sessions'[Len(sessions')].token \notin Tokens(sessions)
             /\ sessions'[Len(sessions')].token = last'.out.token
             /\ sessions'[Len(sessions')].email = e]_vars

\* After a Login the user holds two sessions, both still valid.
C8_Witness ==
    /\ last.op = "login"
    /\ last.status = 200
    /\ \E i, j \in 1..Len(sessions) :
          /\ i < j
          /\ sessions[i].email = sessions[j].email
          /\ sessions[i].expires_at >= now
          /\ sessions[j].expires_at >= now

\* C9: with requests one at a time from an empty question collection, after
\* every request that seeds (get_questions, submit_quiz, leaderboard) the
\* collection holds exactly the 9 canonical questions, and a request made
\* when a jurassic question is stored inserts nothing.
C9_SeededOnce ==
    [][/\ SanitizeAll(questions') = JURASSIC_QUESTIONS
       /\ Len(questions') = 9
       /\ count_documents(questions, "theme", "jurassic") >= 1 =>
             questions' = questions]_vars

\* A later call, through the leaderboard, after a submission was stored.
C9_Witness ==
    /\ last.op = "leaderboard"
    /\ results # <<>>
    /\ SanitizeAll(questions) = JURASSIC_QUESTIONS

\* C10: for every non-empty fetched question list and every answer list,
\* Submit returns total = min(len(Q), len(A)) and score = the number of
\* positions below total where the answer is the question's answer_index.
C10_SubmitScores ==
    [][\A e \in QuizEmails, a \in AnswerInputs, d \in DifficultyInputs :
          (submit_quiz(e, a, d)
             /\ get_documents(questions', filter_dict(d), Absent) # <<>>) =>
             LET Q == get_documents(questions', filter_dict(d), Absent)
                 n == IF Len(Q) < Len(a) THEN Len(Q) ELSE Len(a)
             IN /\ last'.status = 200
                /\ last'.out.total = n
                /\ last'.out.score =
                      Cardinality({i \in 1..n : a[i] = Q[i].answer_index})]_vars

\* C11: Submit answers 400, storing nothing, exactly when the fetched question
\* list is empty; for every non-empty fetched list and every answer list, the
\* empty one included, it stores exactly one QuizResult with the computed
\* score and total and returns them, and every stored QuizResult has
\* total >= 1 and 0 <= score <= total.
C11_SubmitStoresOne ==
    [][\A e \in QuizEmails, a \in AnswerInputs, d \in DifficultyInputs :
          submit_quiz(e, a, d) =>
             LET Q == get_documents(questions', filter_dict(d), Absent)
                 n == IF Len(Q) < Len(a) THEN Len(Q) ELSE Len(a)
                 k == Cardinality({i \in 1..n : a[i] = Q[i].answer_index})
             IN /\ (last'.status = 400) <=> (Q = <<>>)
                /\ Q = <<>> => results' = results
                /\ Q # <<>> =>
                      /\ last'.status = 200
                      /\ last'.out = [score |-> k, total |-> n]
                      /\ Len(results') = Len(results) + 1
                      /\ SubSeq(results', 1, Len(results)) = results
                      /\ results'[Len(results')].score = k
                      /\ results'[Len(results')].total = n
                /\ \A i \in 1..Len(results') :
                      /\ results'[i].total >= 1
                      /\ 0 <= results'[i].score
                      /\ results'[i].score <= results'[i].total]_vars

\* C12: a successful Submit stores the request's difficulty when it is one
\* of easy, medium, hard, and the first fetched question's difficulty in
\* every other case (absent, empty, any other string), and the submission
\* succeeds in those cases too.  Stated for requests with at least one
\* answer, so that the total is at least 1.
C12_StoredDifficulty ==
    [][\A e \in QuizEmails, a \in AnswerInputs \ {<<>>}, d \in DifficultyInputs :
          submit_quiz(e, a, d) =>
             LET Q == get_documents(questions', filter_dict(d), Absent)
             IN Q # <<>> =>
                   /\ last'.status = 200
                   /\ Len(results') = Len(results) + 1
                   /\ results'[Len(results')].difficulty =
                         IF d \in {<<"easy">>, <<"medium">>, <<"hard">>}
                         THEN d[1] ELSE Q[1].difficulty]_vars

\* The results a leaderboard reply is read against: leaderboard leaves the
\* result collection as it found it.
Count(seq, x) == Cardinality({i \in 1..Len(seq) : seq[i] = x})

BoardOrdered(out) ==
    \A i \in 1..(Len(out) - 1) : out[i].score >= out[i + 1].score

BoardFromJurassic(out) ==
    \A i \in 1..Len(out) :
       \E j \in 1..Len(results) :
          results[j].theme = "jurassic" /\ Entry(results[j]) = out[i]

\* No jurassic result left out scores strictly higher than a returned one.
BoardHighest(out) ==
    \A j \in 1..Len(results), i \in 1..Len(out) :
       (results[j].theme = "jurassic" /\ results[j].score > out[i].score) =>
          Count(out, Entry(results[j])) = Count(Entries(results), Entry(results[j]))

\* C13 as stated: for every limit value and every stored set of results,
\* Leaderboard(limit) returns at most limit entries, all of theme jurassic,
\* in non-increasing order of score, and no omitted jurassic result scores
\* strictly higher than a returned one.
C13_TopAtMostLimit ==
    last.op = "leaderboard" =>
       /\ Len(last.out) <= last.arg
       /\ BoardFromJurassic(last.out)
       /\ BoardOrdered(last.out)
       /\ BoardHighest(last.out)

\* C13, amended: the bound of limit entries holds for every limit >= 1; with
\* limit 0 every jurassic result is returned, and with a negative limit at
\* most -limit of them.  For every limit the entries are of theme jurassic,
\* in non-increasing order of score, and the highest-scoring ones.
C13_TopWithinLimit ==
    last.op = "leaderboard" =>
       /\ last.arg >= 1 => Len(last.out) <= last.arg
       /\ last.arg = 0 =>
             Len(last.out) = Cardinality({j \in 1..Len(results) :
                                            results[j].theme = "jurassic"})
       /\ last.arg < 0 => Len(last.out) <= 0 - last.arg
       /\ BoardFromJurassic(last.out)
       /\ BoardOrdered(last.out)
       /\ BoardHighest(last.out)

\* Two stored results, the later one scoring higher, and a leaderboard cut
\* to one entry.
C13_Witness ==
    /\ last.op = "leaderboard"
    /\ last.arg = 1
    /\ Len(results) = 2
    /\ results[1].score < results[2].score
    /\ Len(last.out) = 1

\* The failing step is one this call performs.
Performed(token, fault) ==
    LET s == find_one(sessions, "token", token) IN
    /\ token # NoToken
    /\ \/ fault = "find_session"
       \/ fault = "delete_session" /\ s # None /\ s.expires_at < now
       \/ fault = "find_user" /\ s # None /\ ~(s.expires_at < now)

\* C14: ResolveCurrentUser never propagates a fault: when a storage step it
\* performs (session lookup, deletion of an expired session, user lookup)
\* fails it returns none; for an absent or empty token it returns none
\* without a storage step, whatever the store would have done.
C14_FaultsSwallowed ==
    [][\A t \in ClientTokens, f \in Faults :
          get_current_user_try(t, f) =>
             /\ last'.status # "raised"
             /\ Performed(t, f) =>
                   /\ last'.out = None
                   /\ sessions' = sessions
             /\ t = NoToken =>
                   /\ last'.out = None
                   /\ last'.status = "no_token"
                   /\ sessions' = sessions]_vars

\* A live session of a registered user whose user lookup failed.
C14_Witness ==
    /\ last.op = "get_current_user"
    /\ last.status = "fault"
    /\ last.out = None
    /\ \E i \in 1..Len(sessions) :
          /\ sessions[i].token = last.arg
          /\ ~(sessions[i].expires_at < now)
          /\ HasUser(sessions[i].email)

\* The stored questions a request for difficulty d is about: theme jurassic,
\* and of that difficulty when d is one of easy, medium, hard.
Asked(coll, d) ==
    SelectSeq(coll, LAMBDA q :
       /\ q.theme = "jurassic"
       /\ d \in {<<"easy">>, <<"medium">>, <<"hard">>} => q.difficulty = d[1])

C16_ExpiryFixed ==
    /\ [](\A i \in 1..Len(sessions) :
            sessions[i].expires_at = sessions[i].created_at + 7)
    /\ [][\A t \in ClientTokens :
            (get_current_user(t) /\ last'.status = "live") =>
               sessions' = sessions]_vars
    /\ []((last.op = "get_current_user" /\ last.out # None) =>
            \E i \in 1..Len(issued) :
               /\ issued[i].token = last.arg
               /\ last.at <= issued[i].issued_at + 7)

\* C16, amended: every session record has expires_at >= created_at + 7 days,
\* expires_at being 7 days after the clock reading at which the Register or
\* Login that issued the token returned; resolving a live session leaves
\* the session records as they are; no token resolves to a user later than
\* 7 days after that Register or Login returned.
C16_ExpiryNeverExtended ==
    /\ [](\A i \in 1..Len(sessions) :
            /\ sessions[i].expires_at >= sessions[i].created_at + 7
            /\ \E j \in 1..Len(issued) :
                  /\ issued[j].token = sessions[i].token
                  /\ sessions[i].expires_at = issued[j].issued_at + 7)
    /\ [][\A t \in ClientTokens :
            (get_current_user(t) /\ last'.status = "live") =>
               sessions' = sessions]_vars
    /\ []((last.op = "get_current_user" /\ last.out # None) =>
            \E i \in 1..Len(issued) :
               /\ issued[i].token = last.arg
               /\ last.at <= issued[i].issued_at + 7)

\* A token whose session was created across two clock readings, resolved to
\* its user on the last day of the session, the record still in the store.
C16_Witness ==
    /\ last.op = "get_current_user"
    /\ last.out # None
    /\ \E i \in 1..Len(sessions) :
          /\ sessions[i].token = last.arg
          /\ sessions[i].expires_at = last.at
          /\ sessions[i].expires_at > sessions[i].created_at + 7

\* C17: GetQuestions, Submit and Leaderboard leave the user and session
\* collections unchanged; Register, Login, Logout and ResolveCurrentUser
\* leave the question and result collections unchanged; only Submit inserts
\* into the result collection and only Register into the user collection.
\* Every request records its name in last; a step that moves the clock is
\* no request.
C17_Ownership ==
    [][IF now' # now
       THEN /\ users' = users /\ sessions' = sessions
            /\ questions' = questions /\ results' = results
       ELSE /\ last'.op \in {"get_questions", "submit_quiz", "leaderboard"} =>
                  users' = users /\ sessions' = sessions
            /\ last'.op \in {"register", "login", "logout", "get_current_user"} =>
                  questions' = questions /\ results' = results
            /\ results' # results => last'.op = "submit_quiz"
            /\ users' # users => last'.op = "register"]_vars

\* A leaderboard request served while a user, a session that has expired
\* and a result are stored.
C17_Witness ==
    /\ last.op = "leaderboard"
    /\ users # <<>>
    /\ results # <<>>
    /\ \E i \in 1..Len(sessions) : sessions[i].expires_at < now

\* C18: User and QuizResult records are append-only: a record present in
\* one state is present, with the same field values, in every later state.
\* Both collections keep the order of insertion, so each step must keep
\* what it found as a prefix of what it leaves.
C18_AppendOnly ==
    [][/\ Len(users') >= Len(users)
       /\ \A i \in 1..Len(users) : users'[i] = users[i]
       /\ Len(results') >= Len(results)
       /\ \A i \in 1..Len(results) : results'[i] = results[i]]_vars

\* A user and a result still stored after a later login, logout and a tick
\* of the clock.
C18_Witness ==
    /\ last.op = "logout"
    /\ last.arg \in IssuedTokens
    /\ Len(issued) = 2
    /\ now > 0
    /\ users # <<>>
    /\ results # <<>>

\* How many stored questions are the canonical question q.
Stored(q) == Cardinality({i \in 1..Len(questions) : Sanitize(questions[i]) = q})

\* C19: with K callers running EnsureSeeded at once on an empty question
\* collection, the count and each insert being storage steps of their own,
\* the jurassic questions never number more than 9 * K, each canonical
\* question is stored at most K times, and once every caller has finished
\* each of the 9 canonical questions is stored the same number of times,
\* at least once.
C19_SeedRaceBounded ==
    /\ count_documents(questions, "theme", "jurassic") <= 9 * Cardinality(Procs)
    /\ \A i \in 1..9 : Stored(JURASSIC_QUESTIONS[i]) <= Cardinality(Procs)
    /\ (\A p \in Procs : pc[p] = "seeded") =>
          \E m \in 1..Cardinality(Procs) :
             /\ \A i \in 1..9 : Stored(JURASSIC_QUESTIONS[i]) = m
             /\ Len(questions) = 9 * m

\* Two callers both passed the count and seeded in turns: the set is stored
\* twice, the two copies interleaved.
C19_Witness ==
    /\ \A p \in Procs : pc[p] = "seeded"
    /\ Len(questions) > 9
    /\ Sanitize(questions[1]) = Sanitize(questions[2])

====
